---------------------------- MODULE Spec2Model ----------------------------
(***************************************************************************)
(* A model of the git notes application (src/v1/main.go, lines 1-573):     *)
(* the note codec (saveNote's encoding, parseNoteFromContent), the catalog *)
(* (listNotes, sortNotesByDateAndTitle) and the handlers of the main       *)
(* window that call them.                                                  *)
(*                                                                         *)
(* A Go string is a sequence of one-character strings.  "\n" is the line   *)
(* feed and "\r" the carriage return.                                      *)
(***************************************************************************)
EXTENDS Integers, Sequences, FiniteSets, TLC

(***************************************************************************)
(* Bounds of the model.                                                     *)
(***************************************************************************)
MaxTitleLen == 2
MaxContentLen == 2
MaxTags == 2

(***************************************************************************)
(* Characters and their byte values (Go compares strings bytewise).        *)
(***************************************************************************)
DigitChars == <<"0", "1", "2", "3", "4", "5", "6", "7", "8", "9">>

IsDigit(c) == \E k \in 1..10 : DigitChars[k] = c

DigitVal(c) == (CHOOSE k \in 1..10 : DigitChars[k] = c) - 1

Code(c) ==
    CASE c = "\n" -> 10
      [] c = "\r" -> 13
      [] c = " " -> 32
      [] c = "#" -> 35
      [] c = "," -> 44
      [] c = "-" -> 45
      [] c = "." -> 46
      [] IsDigit(c) -> 48 + DigitVal(c)
      [] c = ":" -> 58
      [] c = "A" -> 65
      [] c = "B" -> 66
      [] c = "T" -> 84
      [] c = "a" -> 97
      [] c = "b" -> 98
      [] c = "c" -> 99
      [] c = "d" -> 100
      [] c = "g" -> 103
      [] c = "m" -> 109
      [] c = "s" -> 115
      [] c = "t" -> 116
      [] c = "x" -> 120
      [] c = "y" -> 121

\* unicode.ToLower on the letters of the model
LowerChar(c) ==
    CASE c = "A" -> "a"
      [] c = "B" -> "b"
      [] c = "T" -> "t"
      [] OTHER -> c

(***************************************************************************)
(* The functions of package strings that the program calls.                *)
(***************************************************************************)
ToLower(s) == [i \in 1..Len(s) |-> LowerChar(s[i])]

\* s < t for Go strings: bytewise lexicographic order
RECURSIVE lessFrom(_, _, _)
lessFrom(s, t, k) ==
    IF k > Len(t) THEN FALSE
    ELSE IF k > Len(s) THEN TRUE
    ELSE IF s[k] = t[k] THEN lessFrom(s, t, k + 1)
    ELSE Code(s[k]) < Code(t[k])

StrLess(s, t) == lessFrom(s, t, 1)

HasPrefix(s, prefix) ==
    Len(s) >= Len(prefix) /\ SubSeq(s, 1, Len(prefix)) = prefix

HasSuffix(s, suffix) ==
    Len(s) >= Len(suffix) /\ SubSeq(s, Len(s) - Len(suffix) + 1, Len(s)) = suffix

TrimPrefix(s, prefix) ==
    IF HasPrefix(s, prefix) THEN SubSeq(s, Len(prefix) + 1, Len(s)) ELSE s

TrimSuffix(s, suffix) ==
    IF HasSuffix(s, suffix) THEN SubSeq(s, 1, Len(s) - Len(suffix)) ELSE s

\* strings.ReplaceAll(s, old, new) for one-character old and new
ReplaceAll(s, old, new) == [i \in 1..Len(s) |-> IF s[i] = old THEN new ELSE s[i]]

\* strings.Index(s, sep) + 1, or 0 when sep does not occur in s
RECURSIVE indexFrom(_, _, _)
indexFrom(s, sep, i) ==
    IF i + Len(sep) - 1 > Len(s) THEN 0
    ELSE IF SubSeq(s, i, i + Len(sep) - 1) = sep THEN i
    ELSE indexFrom(s, sep, i + 1)

Index(s, sep) == indexFrom(s, sep, 1)

RECURSIVE Split(_, _)
\* strings.Split(s, sep) for a non-empty sep; Split("", sep) is [""]
Split(s, sep) ==
    LET i == Index(s, sep)
    IN  IF i = 0
        THEN <<s>>
        ELSE <<SubSeq(s, 1, i - 1)>> \o Split(SubSeq(s, i + Len(sep), Len(s)), sep)

RECURSIVE Join(_, _)
\* strings.Join(elems, sep)
Join(elems, sep) ==
    IF Len(elems) = 0 THEN <<>>
    ELSE IF Len(elems) = 1 THEN elems[1]
    ELSE elems[1] \o sep \o Join(Tail(elems), sep)

IsSpace(c) == c \in {" ", "\n", "\r"}

RECURSIVE TrimLeft(_)
TrimLeft(s) == IF s # <<>> /\ IsSpace(s[1]) THEN TrimLeft(Tail(s)) ELSE s

RECURSIVE TrimRight(_)
TrimRight(s) ==
    IF s # <<>> /\ IsSpace(s[Len(s)]) THEN TrimRight(SubSeq(s, 1, Len(s) - 1)) ELSE s

\* strings.TrimSpace(s)
TrimSpace(s) == TrimRight(TrimLeft(s))

(***************************************************************************)
(* fmt.Sprintf("%04d", n) and "%02d": the decimal digits of n >= 0,        *)
(* padded on the left with zeros to at least width characters.            *)
(***************************************************************************)
RECURSIVE Digits(_)
Digits(n) ==
    IF n < 10 THEN <<DigitChars[n + 1]>>
    ELSE Digits(n \div 10) \o <<DigitChars[(n % 10) + 1]>>

RECURSIVE ZeroPad(_, _)
ZeroPad(s, width) == IF Len(s) >= width THEN s ELSE ZeroPad(<<"0">> \o s, width)

FormatInt(n, width) == ZeroPad(Digits(n), width)

(***************************************************************************)
(* bufio.Scanner with the default split function ScanLines: the lines of s *)
(* without their terminators, one trailing "\r" dropped from each, and no  *)
(* empty last line.  (Lines stay far below bufio.MaxScanTokenSize.)        *)
(***************************************************************************)
dropCR(line) ==
    IF line # <<>> /\ line[Len(line)] = "\r" THEN SubSeq(line, 1, Len(line) - 1) ELSE line

RECURSIVE ScanLines(_)
ScanLines(s) ==
    IF s = <<>> THEN <<>>
    ELSE LET i == Index(s, <<"\n">>)
         IN  IF i = 0
             THEN <<dropCR(s)>>
             ELSE <<dropCR(SubSeq(s, 1, i - 1))>> \o ScanLines(SubSeq(s, i + 1, Len(s)))

(***************************************************************************)
(* time.Time, as much as the program reads of it: the calendar date and    *)
(* the time of day (tod, 0 at midnight).                                   *)
(***************************************************************************)
Time(y, m, d, t) == [year |-> y, month |-> m, day |-> d, tod |-> t]

\* t.Equal(u)
TimeEqual(t, u) == t = u

\* t.After(u)
TimeAfter(t, u) ==
    \/ t.year > u.year
    \/ t.year = u.year /\ t.month > u.month
    \/ t.year = u.year /\ t.month = u.month /\ t.day > u.day
    \/ t.year = u.year /\ t.month = u.month /\ t.day = u.day /\ t.tod > u.tod

isLeap(year) == year % 4 = 0 /\ (year % 100 # 0 \/ year % 400 = 0)

daysIn(month, year) ==
    IF month = 2 THEN (IF isLeap(year) THEN 29 ELSE 28)
    ELSE IF month \in {4, 6, 9, 11} THEN 30 ELSE 31

\* the value of a string of decimal digits
RECURSIVE Atoi(_)
Atoi(s) ==
    IF s = <<>> THEN 0 ELSE 10 * Atoi(SubSeq(s, 1, Len(s) - 1)) + DigitVal(s[Len(s)])

AllDigits(s) == \A i \in 1..Len(s) : IsDigit(s[i])

\* time.Parse("2006-01-02", value): four digits, "-", two digits, "-", two
\* digits and nothing more; the month in 1..12 and the day in the month.
ParseDate(value) ==
    LET shape == /\ Len(value) = 10
                 /\ AllDigits(SubSeq(value, 1, 4))
                 /\ value[5] = "-"
                 /\ AllDigits(SubSeq(value, 6, 7))
                 /\ value[8] = "-"
                 /\ AllDigits(SubSeq(value, 9, 10))
        y == Atoi(SubSeq(value, 1, 4))
        m == Atoi(SubSeq(value, 6, 7))
        d == Atoi(SubSeq(value, 9, 10))
    IN  IF shape /\ m \in 1..12 /\ d >= 1 /\ d <= daysIn(m, y)
        THEN [err |-> FALSE, time |-> Time(y, m, d, 0)]
        ELSE [err |-> TRUE, time |-> Time(1, 1, 1, 0)]


(***************************************************************************)
(* The Note record and the literals of the file format.                    *)
(***************************************************************************)
Note(title, tags, content, created) ==
    [Title |-> title, Tags |-> tags, Content |-> content, Created |-> created]

\* "var note Note": the zero value
ZeroTime == Time(1, 1, 1, 0)
ZeroNote == Note(<<>>, <<>>, <<>>, ZeroTime)

Hyphen == <<"-">>
Space == <<" ">>
LF == <<"\n">>
CommaSpace == <<",", " ">>
MdSuffix == <<".", "m", "d">>
TitlePrefix == <<"#", " ">>
TagsPrefix == <<"T", "a", "g", "s", ":", " ">>

(***************************************************************************)
(* saveNote, the encoding: fileName (lines 160-164) and content (167-170). *)
(***************************************************************************)
\* a slug that also folds the case of the title
saveNoteFileName_Slug(note) ==
    FormatInt(note.Created.year, 4) \o Hyphen
        \o FormatInt(note.Created.month, 2) \o Hyphen
        \o FormatInt(note.Created.day, 2) \o Hyphen
        \o ToLower(ReplaceAll(note.Title, " ", "-")) \o MdSuffix

\* a file name that also carries the time of day
saveNoteFileName_WithTime(note) ==
    FormatInt(note.Created.year, 4) \o Hyphen
        \o FormatInt(note.Created.month, 2) \o Hyphen
        \o FormatInt(note.Created.day, 2) \o Hyphen
        \o FormatInt(note.Created.tod, 2) \o Hyphen
        \o ReplaceAll(note.Title, " ", "-") \o MdSuffix

\* a file name that takes the title as it is
saveNoteFileName_Verbatim(note) ==
    FormatInt(note.Created.year, 4) \o Hyphen
        \o FormatInt(note.Created.month, 2) \o Hyphen
        \o FormatInt(note.Created.day, 2) \o Hyphen
        \o note.Title \o MdSuffix

saveNoteFileName(note) ==
    FormatInt(note.Created.year, 4) \o Hyphen
        \o FormatInt(note.Created.month, 2) \o Hyphen
        \o FormatInt(note.Created.day, 2) \o Hyphen
        \o ReplaceAll(note.Title, " ", "-") \o MdSuffix

\* a document that ends every note with a line feed
saveNoteContent_TrailingLF(note) ==
    TitlePrefix \o note.Title \o LF \o LF
        \o TagsPrefix \o Join(note.Tags, CommaSpace) \o LF \o LF
        \o note.Content \o LF

saveNoteContent(note) ==
    TitlePrefix \o note.Title \o LF \o LF
        \o TagsPrefix \o Join(note.Tags, CommaSpace) \o LF \o LF
        \o note.Content

(***************************************************************************)
(* parseNoteFromContent.                                                   *)
(***************************************************************************)
\* the loop over the lines after the first (lines 287-304): the tags line is
\* the first line with the prefix "Tags: "; every other line goes to the
\* content builder followed by "\n".
\* a loop that takes every line with the prefix as the tags line
RECURSIVE scanBody_EveryTagsLine(_, _, _, _)
scanBody_EveryTagsLine(lines, foundTags, tags, contentBuilder) ==
    IF lines = <<>>
    THEN [Tags |-> tags, Content |-> contentBuilder]
    ELSE LET line == Head(lines)
         IN  IF HasPrefix(line, TagsPrefix)
             THEN scanBody_EveryTagsLine(Tail(lines), TRUE,
                           Split(TrimPrefix(line, TagsPrefix), CommaSpace),
                           contentBuilder)
             ELSE scanBody_EveryTagsLine(Tail(lines), foundTags, tags,
                                         contentBuilder \o line \o LF)

\* a loop that leaves the empty lines out of the content
RECURSIVE scanBody_SkipBlank(_, _, _, _)
scanBody_SkipBlank(lines, foundTags, tags, contentBuilder) ==
    IF lines = <<>>
    THEN [Tags |-> tags, Content |-> contentBuilder]
    ELSE LET line == Head(lines)
         IN  IF ~foundTags /\ HasPrefix(line, TagsPrefix)
             THEN scanBody_SkipBlank(Tail(lines), TRUE,
                           Split(TrimPrefix(line, TagsPrefix), CommaSpace),
                           contentBuilder)
             ELSE scanBody_SkipBlank(Tail(lines), foundTags, tags,
                      IF line = <<>> THEN contentBuilder ELSE contentBuilder \o line \o LF)

RECURSIVE scanBody(_, _, _, _)
scanBody(lines, foundTags, tags, contentBuilder) ==
    IF lines = <<>>
    THEN [Tags |-> tags, Content |-> contentBuilder]
    ELSE LET line == Head(lines)
         IN  IF ~foundTags /\ HasPrefix(line, TagsPrefix)
             THEN scanBody(Tail(lines), TRUE,
                           Split(TrimPrefix(line, TagsPrefix), CommaSpace),
                           contentBuilder)
             ELSE scanBody(Tail(lines), foundTags, tags, contentBuilder \o line \o LF)

\* a decoder that never reads the title of the document
firstLineTitle_None(lines) == <<>>

\* a title line recognised by its "#" alone
firstLineTitle_Hash(lines) ==
    IF lines # <<>> /\ HasPrefix(lines[1], <<"#">>)
    THEN TrimPrefix(lines[1], <<"#">>)
    ELSE <<>>

\* the title taken from the first line of the document (lines 279-284)
firstLineTitle(lines) ==
    IF lines # <<>> /\ HasPrefix(lines[1], TitlePrefix)
    THEN TrimPrefix(lines[1], TitlePrefix)
    ELSE <<>>

\* the title derived from the file name (lines 262-265)
fileNameTitle(parts) ==
    ReplaceAll(TrimSuffix(Join(SubSeq(parts, 4, Len(parts)), Hyphen), MdSuffix), "-", " ")

\* a check that asks for one field too many
invalidFilenameFormat_OffByOne(parts) == Len(parts) < 5

\* the check of the number of fields of the file name (lines 253-255)
invalidFilenameFormat(parts) == Len(parts) < 4

\* a decoder that leaves a first line that is no title line to the loop
parseNoteFromContent_KeepFirst(content, filename) ==
    LET parts == Split(filename, Hyphen)
    IN  IF invalidFilenameFormat(parts)
        THEN [note |-> ZeroNote, err |-> "invalid filename format"]
        ELSE LET title == fileNameTitle(parts)
                 dateStr == parts[1] \o Hyphen \o parts[2] \o Hyphen \o parts[3]
                 created == ParseDate(dateStr)
                 lines == ScanLines(content)
                 body == scanBody(IF lines = <<>> THEN <<>>
                                  ELSE IF HasPrefix(lines[1], TitlePrefix)
                                       THEN Tail(lines) ELSE lines,
                                  FALSE, <<>>, <<>>)
                 docTitle == firstLineTitle(lines)
             IN  IF created.err
                 THEN [note |-> ZeroNote, err |-> "invalid date format"]
                 ELSE [note |-> Note(IF docTitle = <<>> THEN title ELSE docTitle,
                                     body.Tags, body.Content, created.time),
                       err |-> "nil"]

parseNoteFromContent(content, filename) ==
    LET parts == Split(filename, Hyphen)
    IN  IF invalidFilenameFormat(parts)
        THEN [note |-> ZeroNote, err |-> "invalid filename format"]
        ELSE LET title == fileNameTitle(parts)
                 dateStr == parts[1] \o Hyphen \o parts[2] \o Hyphen \o parts[3]
                 created == ParseDate(dateStr)
                 lines == ScanLines(content)
                 body == scanBody(IF lines = <<>> THEN <<>> ELSE Tail(lines),
                                  FALSE, <<>>, <<>>)
                 docTitle == firstLineTitle(lines)
             IN  IF created.err
                 THEN [note |-> ZeroNote, err |-> "invalid date format"]
                 ELSE [note |-> Note(IF docTitle = <<>> THEN title ELSE docTitle,
                                     body.Tags, body.Content, created.time),
                       err |-> "nil"]


(***************************************************************************)
(* Inputs of the codec: the notes handed to saveNote and the files that    *)
(* reach parseNoteFromContent from elsewhere (a pull, an editor).          *)
(***************************************************************************)
SeqsUpTo(S, n) == UNION {[1..k -> S] : k \in 0..n}

TitleChars == {"a", "B", " ", "-"}
ContentChars == {"c", "\n"}
TagValues == {<<"x">>, <<"y">>}

Titles == SeqsUpTo(TitleChars, MaxTitleLen)

TagLists ==
    SeqsUpTo(TagValues, MaxTags)
        \cup {<< <<>> >>, << <<"x", ",", " ", "y">> >>, << <<"x">>, <<>> >>}

Contents ==
    SeqsUpTo(ContentChars, MaxContentLen)
        \cup {TagsPrefix \o <<"x", "\n", "c">>, <<"c", "\r", "\n", "c">>,
              <<"c", "\n", "\n", "c", "\n">>}

Instants ==
    {Time(2024, 1, 2, 0), Time(2024, 1, 2, 1), Time(2024, 2, 29, 1), Time(987, 12, 31, 1)}

NoteInputs ==
    {Note(t, g, c, w) : t \in Titles, g \in TagLists, c \in Contents, w \in Instants}

Y2024 == <<"2", "0", "2", "4">>
Y2023 == <<"2", "0", "2", "3">>

ForeignNames ==
    { Y2024 \o <<"-", "0", "1", "-", "0", "2", "-", "a">> \o MdSuffix,
      Y2024 \o <<"-", "0", "1", "-", "0", "2", "-", "a", "-", "B">> \o MdSuffix,
      Y2024 \o <<"-", "0", "1", "-", "0", "2", "-">> \o MdSuffix,
      Y2024 \o <<"-", "0", "1", "-", "0", "2", "-", "a">>,
      Y2024 \o <<"-", "0", "1", "-", "0", "2">> \o MdSuffix,
      <<"a">> \o MdSuffix,
      <<"a", "-", "B", "-", "a", "-", "B">> \o MdSuffix,
      Y2024 \o <<"-", "1", "3", "-", "0", "2", "-", "a">> \o MdSuffix,
      Y2024 \o <<"-", "0", "0", "-", "0", "2", "-", "a">> \o MdSuffix,
      Y2024 \o <<"-", "0", "1", "-", "0", "0", "-", "a">> \o MdSuffix,
      Y2024 \o <<"-", "0", "4", "-", "3", "1", "-", "a">> \o MdSuffix,
      Y2024 \o <<"-", "0", "2", "-", "2", "9", "-", "a">> \o MdSuffix,
      Y2023 \o <<"-", "0", "2", "-", "2", "9", "-", "a">> \o MdSuffix,
      Y2024 \o <<"-", "1", "-", "0", "2", "-", "a">> \o MdSuffix,
      Y2024 \o <<"-", "0", "1", "-", "0", "2", "x", "-", "a">> \o MdSuffix,
      <<"2", "4", "-", "0", "1", "-", "0", "2", "-", "a">> \o MdSuffix,
      <<"2", "0", "a", "4", "-", "0", "1", "-", "0", "2", "-", "a">> \o MdSuffix,
      <<"0", "2", "0", "2", "4", "-", "0", "1", "-", "0", "2", "-", "a">> \o MdSuffix }

ForeignDocuments ==
    { <<>>,
      LF,
      TitlePrefix \o <<"a">>,
      TitlePrefix \o LF \o <<"c">>,
      <<"#", "a">> \o LF \o <<"c">> \o LF,
      <<"a">> \o LF \o <<"c">> \o LF,
      TagsPrefix \o <<"x">> \o LF \o <<"c">>,
      TitlePrefix \o <<"B">> \o LF \o <<"c">> \o LF,
      TitlePrefix \o <<"B">> \o LF \o TagsPrefix \o <<"x">> \o LF
          \o TagsPrefix \o <<"y">> \o LF,
      TitlePrefix \o <<"a">> \o LF \o LF \o TagsPrefix \o <<"x", ",", " ", "y">>
          \o LF \o LF \o <<"c">> \o LF,
      TitlePrefix \o <<"a", "\r">> \o LF \o TagsPrefix \o <<"x", "\r">> \o LF }

ForeignFiles == {[name |-> n, data |-> d] : n \in ForeignNames, d \in ForeignDocuments}

(***************************************************************************)
(* State.                                                                  *)
(***************************************************************************)
VARIABLES
    codecPc,      \* "note": a note to encode; "file": a file to decode; "done"
    codecFrom,    \* "saveNote": the file is an encoding; "elsewhere": it is not
    codecNote,    \* the note given to saveNote
    codecFile,    \* the file name and the document
    codecOut,     \* what parseNoteFromContent returned
    pc,           \* "start": main before its first refresh; "run": the event loop
    repoDir,      \* the notes directory: "ok" or "missing"
    files,        \* the entries of the notes directory: name -> [data, readable]
    staged,       \* the names added to the git index and not yet committed
    head,         \* the names in the commit HEAD points to
    notes,        \* main's notes slice, which the list widget shows
    titleEntry,   \* the text of the form's three entries
    tagsEntry,
    contentEntry,
    today,        \* the day time.Now() falls on, an index into Days
    faults,       \* how many times a save has failed in the file system or in git
    last          \* what the handler that ran last did

codecVars == <<codecPc, codecFrom, codecNote, codecFile, codecOut>>

formVars == <<titleEntry, tagsEntry, contentEntry>>

storeVars == <<repoDir, files, staged, head>>

envVars == <<today, faults>>

appVars == <<pc, storeVars, notes, formVars, envVars, last>>

vars == <<codecVars, appVars>>

NoFile == [name |-> <<>>, data |-> <<>>]
NoOut == [note |-> ZeroNote, err |-> "none"]

(***************************************************************************)
(* The codec on its own: a note is encoded and the file decoded, or a file *)
(* from elsewhere is decoded.                                              *)
(***************************************************************************)
AppIdle ==
    /\ pc = "start"
    /\ repoDir = "ok"
    /\ files = << >>
    /\ staged = {} /\ head = {}
    /\ notes = <<>>
    /\ titleEntry = <<>> /\ tagsEntry = <<>> /\ contentEntry = <<>>
    /\ today = 1
    /\ faults = 0
    /\ last = [op |-> "none"]

CodecInit ==
    /\ AppIdle
    /\ codecOut = NoOut
    /\ \/ /\ codecPc = "note"
          /\ codecFrom = "saveNote"
          /\ codecNote \in NoteInputs
          /\ codecFile = NoFile
       \/ /\ codecPc = "file"
          /\ codecFrom = "elsewhere"
          /\ codecNote = ZeroNote
          /\ codecFile \in ForeignFiles

CodecEncode ==
    /\ codecPc = "note"
    /\ codecFile' = [name |-> saveNoteFileName(codecNote),
                     data |-> saveNoteContent(codecNote)]
    /\ codecPc' = "file"
    /\ UNCHANGED <<codecFrom, codecNote, codecOut, appVars>>

CodecDecode ==
    /\ codecPc = "file"
    /\ codecOut' = parseNoteFromContent(codecFile.data, codecFile.name)
    /\ codecPc' = "done"
    /\ UNCHANGED <<codecFrom, codecNote, codecFile, appVars>>

CodecNext == CodecEncode \/ CodecDecode

SpecCodec == CodecInit /\ [][CodecNext]_vars


(***************************************************************************)
(* The catalog: listNotes and sortNotesByDateAndTitle.                     *)
(***************************************************************************)
\* sort.Strings on a set of names
RECURSIVE insertString(_, _)
insertString(sorted, x) ==
    IF sorted # <<>> /\ StrLess(x, sorted[Len(sorted)])
    THEN Append(insertString(SubSeq(sorted, 1, Len(sorted) - 1), x), sorted[Len(sorted)])
    ELSE Append(sorted, x)

RECURSIVE SortStrings(_)
SortStrings(S) ==
    IF S = {} THEN <<>>
    ELSE LET x == CHOOSE y \in S : TRUE
         IN  insertString(SortStrings(S \ {x}), x)

\* filepath.Glob(filepath.Join(repoPath, "*.md")): the names of the directory
\* that end in ".md", sorted (Glob sorts the names it read, so the order in
\* which the file system enumerates them never reaches the program).  Glob
\* ignores the errors of reading the directory; its only error is a malformed
\* pattern, which "*.md" after the path is not.
Glob(dir, fs) ==
    [matches |-> IF dir = "ok"
                 THEN SortStrings({n \in DOMAIN fs : HasSuffix(n, MdSuffix)})
                 ELSE <<>>,
     err |-> "nil"]

\* ioutil.ReadFile of an entry of the directory
ReadFile(fs, name) ==
    IF fs[name].readable
    THEN [data |-> fs[name].data, err |-> "nil"]
    ELSE [data |-> <<>>, err |-> "read error"]

\* a loop that gives up at the first file it cannot read or decode
RECURSIVE listLoop_Abort(_, _, _)
listLoop_Abort(fs, matches, acc) ==
    IF matches = <<>> THEN [notes |-> acc, err |-> "nil"]
    ELSE LET file == Head(matches)
             read == ReadFile(fs, file)
             parsed == parseNoteFromContent(read.data, file)
         IN  IF read.err # "nil" THEN [notes |-> <<>>, err |-> read.err]
             ELSE IF parsed.err # "nil" THEN [notes |-> <<>>, err |-> parsed.err]
             ELSE listLoop_Abort(fs, Tail(matches), Append(acc, parsed.note))

\* the loop of listNotes (lines 216-229) over the files Glob matched
RECURSIVE listLoop(_, _, _)
listLoop(fs, matches, acc) ==
    IF matches = <<>> THEN [notes |-> acc, err |-> "nil"]
    ELSE LET file == Head(matches)
             read == ReadFile(fs, file)
             parsed == parseNoteFromContent(read.data, file)
         IN  IF read.err # "nil" THEN listLoop(fs, Tail(matches), acc)
             ELSE IF parsed.err # "nil" THEN listLoop(fs, Tail(matches), acc)
             ELSE listLoop(fs, Tail(matches), Append(acc, parsed.note))

listNotes_Abort(dir, fs) ==
    LET glob == Glob(dir, fs)
    IN  IF glob.err # "nil"
        THEN [notes |-> <<>>, err |-> "failed to list files"]
        ELSE listLoop_Abort(fs, glob.matches, <<>>)

listNotes(dir, fs) ==
    LET glob == Glob(dir, fs)
    IN  IF glob.err # "nil"
        THEN [notes |-> <<>>, err |-> "failed to list files"]
        ELSE listLoop(fs, glob.matches, <<>>)

\* a comparison of the titles as they are written
less_CaseSensitive(a, b) ==
    IF ~TimeEqual(a.Created, b.Created)
    THEN TimeAfter(a.Created, b.Created)
    ELSE StrLess(a.Title, b.Title)

\* a comparison that puts the oldest note first
less_OldestFirst(a, b) ==
    IF ~TimeEqual(a.Created, b.Created)
    THEN TimeAfter(b.Created, a.Created)
    ELSE StrLess(ToLower(a.Title), ToLower(b.Title))

\* a comparison that holds of two notes of one date and one title
less_OrEqual(a, b) ==
    IF ~TimeEqual(a.Created, b.Created)
    THEN TimeAfter(a.Created, b.Created)
    ELSE ~StrLess(ToLower(b.Title), ToLower(a.Title))

\* the less function given to sort.Slice (lines 237-244)
less(a, b) ==
    IF ~TimeEqual(a.Created, b.Created)
    THEN TimeAfter(a.Created, b.Created)
    ELSE StrLess(ToLower(a.Title), ToLower(b.Title))

\* sort.Slice on a slice of at most 12 elements is an insertion sort: each
\* element moves left while it is less than the one before it.
RECURSIVE insertLeft(_, _)
insertLeft(sorted, x) ==
    IF sorted # <<>> /\ less(x, sorted[Len(sorted)])
    THEN Append(insertLeft(SubSeq(sorted, 1, Len(sorted) - 1), x), sorted[Len(sorted)])
    ELSE Append(sorted, x)

RECURSIVE sortNotesByDateAndTitle(_)
sortNotesByDateAndTitle(list) ==
    IF Len(list) <= 1 THEN list
    ELSE insertLeft(sortNotesByDateAndTitle(SubSeq(list, 1, Len(list) - 1)), list[Len(list)])

(***************************************************************************)
(* The main window.                                                        *)
(***************************************************************************)
\* the longest content the user saves, and the number of saves that fail
MaxEntryLen == 2
MaxFaults == 1

Form(title, tags, content) == [title |-> title, tags |-> tags, content |-> content]

\* what the user types into the form
Drafts ==
    { Form(<<"a">>, <<>>, <<"c">>),
      Form(<<"a">>, <<"x", " ", ",", "y">>, <<"c">>),
      Form(<<"B">>, <<>>, <<"c">>),
      Form(<<>>, <<"x", " ", ",", "y">>, <<"c">>) }

\* the days the clock passes through; time.Now() is Days[today]
Days == <<Time(2024, 1, 2, 1), Time(2024, 1, 3, 1)>>

Entry(d, r) == [data |-> d, readable |-> r]

D20240101 == Y2024 \o <<"-", "0", "1", "-", "0", "1", "-">>

\* what a pull brings, and what main can find in the directory at its
\* start: a name with an impossible month, a name that is no note's, and an
\* entry that cannot be read
RemoteFiles ==
    (Y2024 \o <<"-", "1", "3", "-", "0", "1", "-", "a">> \o MdSuffix
        :> Entry(TitlePrefix \o <<"a">> \o LF, TRUE))
    @@ (<<"a">> \o MdSuffix :> Entry(TitlePrefix \o <<"a">> \o LF, TRUE))
    @@ (D20240101 \o <<"a">> \o MdSuffix :> Entry(<<>>, FALSE))

EmptyDir == << >>

Call(name, ok) == [call |-> name, ok |-> ok]

\* a call of the git library, with the error it returned
LibCall(name, libErr) == [call |-> name, ok |-> libErr = "nil", returned |-> libErr]

\* what a handler did: the calls it made, the dialogs it showed, and for the
\* save handler the note it built and whether a committed file had its name
Handler(op, steps, dialogs, note, resave) ==
    [op |-> op, steps |-> steps, dialogs |-> dialogs, note |-> note, resave |-> resave]

NoHandler == Handler("none", <<>>, <<>>, ZeroNote, FALSE)

\* dialog.ShowError(err, w) and dialog.ShowInformation(title, message, w):
\* the text of the dialog; an error is the sequence of its message and of the
\* error it wraps, and the nil error is empty
ShowError(err) == <<"Error">> \o err

ShowInformation(title, message) == <<title, message>>

\* a dialog covers the window until it is dismissed
Idle == pc = "run" /\ last.dialogs = <<>>

\* a refresh that adds what it lists to what the list holds
refreshNotesList_Append(dir, fs) ==
    LET listed == listNotes(dir, fs)
    IN  [notes |-> sortNotesByDateAndTitle(notes \o listed.notes),
         steps |-> <<Call("listNotes", TRUE), Call("sortNotesByDateAndTitle", TRUE)>>,
         dialogs |-> <<>>]

\* refreshNotesList (lines 424-437): what it leaves in notes, the calls it
\* made and the dialogs it showed
refreshNotesList(dir, fs) ==
    LET listed == listNotes(dir, fs)
    IN  IF listed.err # "nil"
        THEN [notes |-> listed.notes,
              steps |-> <<Call("listNotes", FALSE)>>,
              dialogs |-> <<ShowError(<<listed.err>>)>>]
        ELSE [notes |-> sortNotesByDateAndTitle(listed.notes),
              steps |-> <<Call("listNotes", TRUE), Call("sortNotesByDateAndTitle", TRUE)>>,
              dialogs |-> <<>>]

\* the tags of the note the save handler builds (lines 453-460)
RECURSIVE TrimEach(_)
TrimEach(list) ==
    IF list = <<>> THEN <<>> ELSE <<TrimSpace(Head(list))>> \o TrimEach(Tail(list))

parseTags(text) == IF text # <<>> THEN TrimEach(Split(text, <<",">>)) ELSE <<>>

AppInit ==
    /\ pc = "loadConfig"
    /\ repoDir = "ok"
    /\ \/ files = EmptyDir /\ head = {}
       \/ files = RemoteFiles /\ head = DOMAIN RemoteFiles
    /\ staged = {}
    /\ notes = <<>>
    /\ titleEntry = <<>> /\ tagsEntry = <<>> /\ contentEntry = <<>>
    /\ today = 1
    /\ faults = 0
    /\ last = NoHandler

\* what os.Stat and ioutil.ReadFile can find at ~/.git-notes.conf
ConfigFiles == {"missing", "unreadable", "noRepoPath", "valid"}

\* the event loop of the toolkit, which draws the windows and the dialogs and
\* calls the callbacks, runs on main's goroutine inside w.ShowAndRun (line
\* 572) and nowhere before
eventLoopRuns == pc = "run"

\* main up to the creation of its window (lines 350-363): loadConfig, which
\* goes to createConfigFile when there is no file and fails on a file it
\* cannot read or that names no path, then ensureRepoExists; main exits on
\* an error of either.  createConfigFile is left waiting at <-done (line 125).
LoadConfig ==
    /\ pc = "loadConfig"
    /\ \E conf \in ConfigFiles, opened \in BOOLEAN :
          pc' = CASE conf = "missing" -> "createConfigFile"
                  [] conf = "valid" /\ opened -> "start"
                  [] OTHER -> "exit"
    /\ UNCHANGED <<storeVars, notes, formVars, envVars, last, codecVars>>

\* the callback given to dialog.ShowCustomConfirm (lines 101-124), the only
\* sender on done: the event loop calls it when the user answers the dialog,
\* and createConfigFile then returns to loadConfig and main
ConfigDialogCallback ==
    /\ pc = "createConfigFile"
    /\ eventLoopRuns
    /\ pc' = "start"
    /\ UNCHANGED <<storeVars, notes, formVars, envVars, last, codecVars>>

\* main's first refreshNotesList (line 569)
Start ==
    /\ pc = "start"
    /\ pc' = "run"
    /\ LET r == refreshNotesList(repoDir, files)
       IN  /\ notes' = r.notes
           /\ last' = Handler("start", r.steps, r.dialogs, ZeroNote, FALSE)
    /\ UNCHANGED <<storeVars, formVars, envVars, codecVars>>

\* the user closes the dialogs a handler showed
Dismiss ==
    /\ pc = "run"
    /\ last.dialogs # <<>>
    /\ last' = NoHandler
    /\ UNCHANGED <<pc, storeVars, notes, formVars, envVars, codecVars>>

\* the user fills the form in, or changes the content alone
EditForm ==
    /\ Idle
    /\ \E d \in Drafts :
          /\ <<titleEntry, tagsEntry, contentEntry>> # <<d.title, d.tags, d.content>>
          /\ titleEntry' = d.title /\ tagsEntry' = d.tags /\ contentEntry' = d.content
    /\ last' = NoHandler
    /\ UNCHANGED <<pc, storeVars, notes, envVars, codecVars>>

EditContent ==
    /\ Idle
    /\ contentEntry # <<"c">>
    /\ contentEntry' = <<"c">>
    /\ last' = NoHandler
    /\ UNCHANGED <<pc, storeVars, notes, titleEntry, tagsEntry, envVars, codecVars>>

\* a selection that takes the last note for an id past the end
OnSelected_Clamp(id) ==
    LET selectedNote == IF id < Len(notes) THEN notes[id + 1]
                        ELSE IF notes # <<>> THEN notes[Len(notes)] ELSE ZeroNote
    IN  /\ titleEntry' = selectedNote.Title
        /\ tagsEntry' = Join(selectedNote.Tags, CommaSpace)
        /\ contentEntry' = selectedNote.Content

\* notesList.OnSelected (lines 414-421); the ids count from 0
OnSelected(id) ==
    IF id < Len(notes)
    THEN LET selectedNote == notes[id + 1]
         IN  /\ titleEntry' = selectedNote.Title
             /\ tagsEntry' = Join(selectedNote.Tags, CommaSpace)
             /\ contentEntry' = selectedNote.Content
    ELSE UNCHANGED formVars

\* the user selects an item of the list, or the widget reports one that the
\* list no longer has
Select ==
    /\ Idle
    /\ \E id \in 0..Len(notes) : OnSelected(id)
    /\ last' = NoHandler
    /\ UNCHANGED <<pc, storeVars, notes, envVars, codecVars>>

\* the New Note button (lines 502-507)
NewButton ==
    /\ Idle
    /\ titleEntry' = <<>> /\ tagsEntry' = <<>> /\ contentEntry' = <<>>
    /\ last' = NoHandler
    /\ UNCHANGED <<pc, storeVars, notes, envVars, codecVars>>

\* ioutil.WriteFile can write the file: the directory is there and no entry
\* of that name refuses access
canWrite(dir, fs, fileName) ==
    dir = "ok" /\ (fileName \in DOMAIN fs => fs[fileName].readable)

\* a saveNote that goes on to the commit when the add has failed
saveNote_CommitAnyway(note, dir, fs, index, commit, failing) ==
    LET fileName == saveNoteFileName(note)
        written == (fileName :> Entry(saveNoteContent(note), TRUE)) @@ fs
    IN  IF failing = "WriteFile" \/ ~canWrite(dir, fs, fileName)
        THEN [files |-> fs, staged |-> index, head |-> commit,
              steps |-> <<Call("WriteFile", FALSE)>>,
              err |-> <<"failed to write file">>]
        ELSE [files |-> written, staged |-> {},
              head |-> commit \cup index \cup {fileName},
              steps |-> <<Call("WriteFile", TRUE), Call("Add", failing # "Add"),
                          Call("Commit", TRUE)>>,
              err |-> <<>>]

\* a saveNote that removes the file it wrote when the add or the commit fails
saveNote_Rollback(note, dir, fs, index, commit, failing) ==
    LET fileName == saveNoteFileName(note)
        written == (fileName :> Entry(saveNoteContent(note), TRUE)) @@ fs
    IN  IF failing = "WriteFile" \/ ~canWrite(dir, fs, fileName)
        THEN [files |-> fs, staged |-> index, head |-> commit,
              steps |-> <<Call("WriteFile", FALSE)>>,
              err |-> <<"failed to write file">>]
        ELSE IF failing = "Add"
        THEN [files |-> fs, staged |-> index, head |-> commit,
              steps |-> <<Call("WriteFile", TRUE), Call("Add", FALSE)>>,
              err |-> <<"git add failed">>]
        ELSE IF failing = "Commit"
        THEN [files |-> fs, staged |-> index, head |-> commit,
              steps |-> <<Call("WriteFile", TRUE), Call("Add", TRUE),
                          Call("Commit", FALSE)>>,
              err |-> <<"git commit failed">>]
        ELSE [files |-> written, staged |-> {},
              head |-> commit \cup index \cup {fileName},
              steps |-> <<Call("WriteFile", TRUE), Call("Add", TRUE),
                          Call("Commit", TRUE)>>,
              err |-> <<>>]

\* saveNote (lines 158-204): the write (173-176), the add (185-188) and the
\* commit (191-201), the first failure returning its error.  The repository
\* is not bare, so repo.Worktree() (179-182) does not fail.  failing names the
\* step the file system or git refuses, if any.  A commit records all that
\* is staged.
saveNote(note, dir, fs, index, commit, failing) ==
    LET fileName == saveNoteFileName(note)
        written == (fileName :> Entry(saveNoteContent(note), TRUE)) @@ fs
    IN  IF failing = "WriteFile" \/ ~canWrite(dir, fs, fileName)
        THEN [files |-> fs, staged |-> index, head |-> commit,
              steps |-> <<Call("WriteFile", FALSE)>>,
              err |-> <<"failed to write file">>]
        ELSE IF failing = "Add"
        THEN [files |-> written, staged |-> index, head |-> commit,
              steps |-> <<Call("WriteFile", TRUE), Call("Add", FALSE)>>,
              err |-> <<"git add failed">>]
        ELSE IF failing = "Commit"
        THEN [files |-> written, staged |-> index \cup {fileName}, head |-> commit,
              steps |-> <<Call("WriteFile", TRUE), Call("Add", TRUE),
                          Call("Commit", FALSE)>>,
              err |-> <<"git commit failed">>]
        ELSE [files |-> written, staged |-> {},
              head |-> commit \cup index \cup {fileName},
              steps |-> <<Call("WriteFile", TRUE), Call("Add", TRUE),
                          Call("Commit", TRUE)>>,
              err |-> <<>>]

\* a check of the title that lets every title through
titleMissing_Never(title) == FALSE

\* the check of the title before the note is built (lines 441-444)
titleMissing(title) == title = <<>>

\* the Save Note button (lines 440-477).  The file system and git refuse a
\* step MaxFaults times in all.
SaveButton ==
    /\ Idle
    /\ Len(contentEntry) <= MaxEntryLen
    /\ IF titleMissing(titleEntry)
       THEN /\ last' = Handler("save", <<>>,
                               <<ShowInformation("Error", "Title cannot be empty")>>,
                               ZeroNote, FALSE)
            /\ UNCHANGED <<pc, storeVars, notes, formVars, envVars, codecVars>>
       ELSE LET note == Note(titleEntry, parseTags(tagsEntry), contentEntry, Days[today])
                fileName == saveNoteFileName(note)
                resave == fileName \in DOMAIN files /\ fileName \in head
                writable == canWrite(repoDir, files, fileName)
            IN  \E failing \in (IF ~writable THEN {"WriteFile"}
                                ELSE IF faults < MaxFaults
                                     THEN {"none", "WriteFile", "Add", "Commit"}
                                     ELSE {"none"}) :
                   LET saved == saveNote(note, repoDir, files, staged, head, failing)
                   IN  /\ files' = saved.files
                       /\ staged' = saved.staged
                       /\ head' = saved.head
                       /\ faults' = IF writable /\ failing # "none"
                                    THEN faults + 1 ELSE faults
                       /\ IF saved.err # <<>>
                          THEN /\ last' = Handler("save", saved.steps,
                                                  <<ShowError(saved.err)>>, note, resave)
                               /\ UNCHANGED <<notes, formVars>>
                          ELSE /\ titleEntry' = <<>>
                               /\ tagsEntry' = <<>>
                               /\ contentEntry' = <<>>
                               /\ LET r == refreshNotesList(repoDir, saved.files)
                                  IN  /\ notes' = r.notes
                                      /\ last' = Handler("save", saved.steps \o r.steps,
                                             r.dialogs
                                                 \o <<ShowInformation("Success",
                                                         "Note saved successfully")>>,
                                             note, resave)
                       /\ UNCHANGED <<pc, repoDir, today, codecVars>>

\* a pushToRemote that also takes a push with nothing to send for a success
pushToRemote_Lenient(libErr) ==
    IF libErr \notin {"nil", "remote repository is empty", "already up-to-date"}
    THEN <<"git push failed", libErr>>
    ELSE <<>>

\* pushToRemote (lines 317-329): the error it makes of what repo.Push returned
pushToRemote(libErr) ==
    IF libErr # "nil" /\ libErr # "remote repository is empty"
    THEN <<"git push failed", libErr>>
    ELSE <<>>

\* pullFromRemote (lines 332-348): the error it makes of what w.Pull returned
pullFromRemote(libErr) ==
    IF libErr # "nil" /\ libErr # "already up-to-date"
    THEN <<"git pull failed", libErr>>
    ELSE <<>>

\* nil, git.NoErrAlreadyUpToDate, transport.ErrEmptyRemoteRepository and
\* the other errors of the library
LibErrors == {"nil", "already up-to-date", "remote repository is empty", "other error"}

\* the Push to Remote button (lines 479-487)
PushButton ==
    /\ Idle
    /\ \E libErr \in LibErrors :
          LET err == pushToRemote(libErr)
          IN  last' = Handler("push", <<LibCall("Push", libErr)>>,
                              IF err # <<>> THEN <<ShowError(err)>>
                              ELSE <<ShowInformation("Success",
                                        "Changes pushed to remote repository")>>,
                              ZeroNote, FALSE)
    /\ UNCHANGED <<pc, storeVars, notes, formVars, envVars, codecVars>>

\* the Pull from Remote button (lines 489-500).  A pull that fetched commits
\* leaves their files in the directory.
PullButton ==
    /\ Idle
    /\ \E libErr \in LibErrors :
          LET err == pullFromRemote(libErr)
          IN  IF err # <<>>
              THEN /\ last' = Handler("pull", <<LibCall("Pull", libErr)>>,
                                      <<ShowError(err)>>, ZeroNote, FALSE)
                   /\ UNCHANGED <<storeVars, notes>>
              ELSE /\ IF libErr = "nil"
                      THEN /\ repoDir = "ok"
                           /\ files' = RemoteFiles @@ files
                           /\ head' = head \cup DOMAIN RemoteFiles
                           /\ UNCHANGED <<repoDir, staged>>
                      ELSE UNCHANGED storeVars
                   /\ LET r == refreshNotesList(repoDir, files')
                      IN  /\ notes' = r.notes
                          /\ last' = Handler("pull",
                                 <<LibCall("Pull", libErr)>> \o r.steps,
                                 r.dialogs
                                     \o <<ShowInformation("Success",
                                             "Changes pulled from remote repository")>>,
                                 ZeroNote, FALSE)
    /\ UNCHANGED <<pc, formVars, envVars, codecVars>>

\* midnight passes
Tick ==
    /\ Idle
    /\ today < Len(Days)
    /\ today' = today + 1
    /\ last' = NoHandler
    /\ UNCHANGED <<pc, storeVars, notes, formVars, faults, codecVars>>

\* the notes directory, the repository in it included, is removed behind the
\* back of the program
DirRemoved ==
    /\ Idle
    /\ repoDir = "ok"
    /\ repoDir' = "missing"
    /\ files' = EmptyDir
    /\ staged' = {}
    /\ head' = {}
    /\ last' = NoHandler
    /\ UNCHANGED <<pc, notes, formVars, envVars, codecVars>>

CodecIdle ==
    /\ codecPc = "done"
    /\ codecFrom = "elsewhere"
    /\ codecNote = ZeroNote
    /\ codecFile = NoFile
    /\ codecOut = NoOut

Init == AppInit /\ CodecIdle

Next ==
    \/ LoadConfig
    \/ Start
    \/ Dismiss
    \/ EditForm
    \/ EditContent
    \/ Select
    \/ NewButton
    \/ SaveButton
    \/ PushButton
    \/ PullButton
    \/ Tick
    \/ DirRemoved

Spec == Init /\ [][Next]_vars

(***************************************************************************)
(* Vocabulary of the claims about the codec.                               *)
(***************************************************************************)
Chars(s) == {s[i] : i \in DOMAIN s}

SameDay(t, u) == t.year = u.year /\ t.month = u.month /\ t.day = u.day

Encoded == codecFrom = "saveNote" /\ codecPc \in {"file", "done"}

RoundTripped == codecFrom = "saveNote" /\ codecPc = "done"

\* the number a run of decimal digits s[from..to] denotes
RECURSIVE Denotes(_, _, _)
Denotes(s, from, to) ==
    IF to < from THEN 0 ELSE 10 * Denotes(s, from, to - 1) + DigitVal(s[to])

\* C1 (as claimed): a note with a non-empty title without hyphens that is
\* encoded and decoded comes back with the same title, tags and content, and
\* with its creation date at day resolution.
C1_RoundTrip ==
    (RoundTripped /\ codecNote.Title # <<>> /\ "-" \notin Chars(codecNote.Title))
        => /\ codecOut.err = "nil"
           /\ codecOut.note.Title = codecNote.Title
           /\ codecOut.note.Tags = codecNote.Tags
           /\ codecOut.note.Content = codecNote.Content
           /\ SameDay(codecOut.note.Created, codecNote.Created)

\* C2 (as claimed): a content of several lines comes back verbatim from an
\* encoding and a decoding, or with the one separator blank line that follows
\* the tags line in front of it.
C2_ContentIntegrity ==
    (/\ RoundTripped
     /\ codecNote.Title # <<>>
     /\ "\n" \in Chars(codecNote.Content)
     /\ Chars(codecNote.Content) \subseteq {"c", "\n"})
        => \/ codecOut.note.Content = codecNote.Content
           \/ codecOut.note.Content = LF \o codecNote.Content

\* C3: the file name is the year in four digits, the month and the day in two
\* digits each, joined and followed by hyphens, then the title with every
\* space turned into a hyphen and every other character as it is, then ".md".
C3_FilenameFormat ==
    Encoded =>
        LET fn == codecFile.name
            t == codecNote.Title
            w == codecNote.Created
        IN  /\ Len(fn) = 11 + Len(t) + 3
            /\ \A i \in {1, 2, 3, 4, 6, 7, 9, 10} : IsDigit(fn[i])
            /\ Denotes(fn, 1, 4) = w.year
            /\ Denotes(fn, 6, 7) = w.month
            /\ Denotes(fn, 9, 10) = w.day
            /\ fn[5] = "-" /\ fn[8] = "-" /\ fn[11] = "-"
            /\ \A i \in 1..Len(t) : fn[11 + i] = (IF t[i] = " " THEN "-" ELSE t[i])
            /\ SubSeq(fn, Len(fn) - 2, Len(fn)) = <<".", "m", "d">>

C3_Witness ==
    /\ Encoded
    /\ {" ", "B"} \subseteq Chars(codecNote.Title)
    /\ codecNote.Created.year < 1000

\* where tag i starts in the value of the tags line, counted from 0
RECURSIVE TagOffset(_, _)
TagOffset(tags, i) ==
    IF i = 1 THEN 0 ELSE TagOffset(tags, i - 1) + Len(tags[i - 1]) + 2

Listed == \E i \in DOMAIN last.steps : last.steps[i].call = "listNotes"

\* the names of the directory that end in ".md", can be read and decode
Decodable(fs) ==
    {name \in DOMAIN fs :
        /\ HasSuffix(name, MdSuffix)
        /\ fs[name].readable
        /\ parseNoteFromContent(fs[name].data, name).err = "nil"}

\* C5: whatever the directory holds, nothing included, listNotes returns no
\* error and one Note for each ".md" file that can be read and decodes; the
\* files with a malformed name, an impossible date or unreadable content are
\* left out and take no other file with them.
C5_SkipPolicy ==
    Listed =>
        /\ \A i \in DOMAIN last.steps :
              last.steps[i].call = "listNotes" => last.steps[i].ok
        /\ Len(notes) = Cardinality(Decodable(files))
        /\ \A name \in Decodable(files) :
              \E i \in DOMAIN notes :
                 notes[i] = parseNoteFromContent(files[name].data, name).note

C5_Witness ==
    /\ Listed
    /\ DOMAIN RemoteFiles \subseteq DOMAIN files
    /\ Cardinality(Decodable(files)) >= 2
    /\ \E name \in DOMAIN files \ Decodable(files) :
          \E good \in Decodable(files) : StrLess(name, good)

\* C6: of two notes of the list the one shown first has the later creation
\* date, or the same date and a lower-cased title that is not after the
\* other's.
C6_CatalogOrdering ==
    \A i, j \in DOMAIN notes :
        i < j =>
            \/ TimeAfter(notes[i].Created, notes[j].Created)
            \/ /\ TimeEqual(notes[i].Created, notes[j].Created)
               /\ ~StrLess(ToLower(notes[j].Title), ToLower(notes[i].Title))

C6_Witness ==
    /\ Listed
    /\ \E i, j, k \in DOMAIN notes :
          /\ TimeEqual(notes[i].Created, notes[j].Created)
          /\ notes[i].Title = <<"a">> /\ notes[j].Title = <<"B">>
          /\ ~TimeEqual(notes[k].Created, notes[i].Created)

\* C7 (as claimed): a listing of a directory that is missing fails, and
\* refreshNotesList shows the error.
C7_ListingFailure ==
    (Listed /\ repoDir # "ok") =>
        /\ \E i \in DOMAIN last.steps :
              last.steps[i].call = "listNotes" /\ ~last.steps[i].ok
        /\ \E i \in DOMAIN last.dialogs : last.dialogs[i][1] = "Error"

\* the save handler has saved, without an error, a note whose file name a
\* committed file had
Resaved ==
    /\ last.op = "save"
    /\ last.resave
    /\ \E i \in DOMAIN last.steps : last.steps[i].call = "Commit" /\ last.steps[i].ok

\* C8 (as claimed): after a second successful save of a note of the same date
\* and title the directory holds under the file name the document of the
\* second note, the save has reported nothing but its success, and the list
\* shows one note of that date and title, with the tags and the content of the
\* second note.
C8_SilentOverwrite ==
    Resaved =>
        LET fileName == saveNoteFileName(last.note)
            shown == {i \in DOMAIN notes :
                         /\ notes[i].Title = last.note.Title
                         /\ SameDay(notes[i].Created, last.note.Created)}
        IN  /\ fileName \in DOMAIN files
            /\ files[fileName].data = saveNoteContent(last.note)
            /\ last.dialogs = <<ShowInformation("Success", "Note saved successfully")>>
            /\ Cardinality(shown) = 1
            /\ \A i \in shown : /\ notes[i].Tags = last.note.Tags
                                /\ notes[i].Content = last.note.Content

\* the days of a month of the Gregorian calendar
CalendarDays(y, m) ==
    LET leap == (y % 400 = 0) \/ (y % 4 = 0 /\ y % 100 # 0)
    IN  <<31, IF leap THEN 29 ELSE 28, 31, 30, 31, 30, 31, 31, 30, 31, 30, 31>>[m]

HyphenCount(s) == Cardinality({i \in DOMAIN s : s[i] = "-"})

\* the first three fields of a name of at least four fields are a date
\* YYYY-MM-DD of the calendar
StartsWithDate(fn) ==
    /\ Len(fn) >= 11
    /\ \A i \in 1..11 : (fn[i] = "-") <=> (i \in {5, 8, 11})
    /\ \A i \in {1, 2, 3, 4, 6, 7, 9, 10} : IsDigit(fn[i])
    /\ Denotes(fn, 6, 7) \in 1..12
    /\ Denotes(fn, 9, 10) \in 1..CalendarDays(Denotes(fn, 1, 4), Denotes(fn, 6, 7))

\* C9: decoding fails exactly when the file name has fewer than four fields
\* between hyphens or its first three fields are no calendar date YYYY-MM-DD;
\* what the document holds, or lacks, never makes it fail.
C9_DecodeFailure ==
    codecPc = "done" =>
        ((codecOut.err # "nil")
            <=> (HyphenCount(codecFile.name) + 1 < 4 \/ ~StartsWithDate(codecFile.name)))

C9_Witness ==
    /\ codecPc = "done"
    /\ codecFrom = "elsewhere"
    /\ codecFile.data = <<>>
    /\ HyphenCount(codecFile.name) > 3
    /\ codecOut.err = "nil"

\* the notes that differ from note in the tags, in the content or in the time
\* of day alone
Variants(note) ==
    {Note(note.Title, g, note.Content, note.Created) : g \in TagLists}
        \cup {Note(note.Title, note.Tags, c, note.Created) : c \in Contents}
        \cup {Note(note.Title, note.Tags, note.Content, w) :
                 w \in {u \in Instants : SameDay(u, note.Created)}}

\* C10: a note of the same title and the same day, whatever its tags and its
\* content, is given the same file name.  (Every input note is encoded in
\* some behaviour, so one field changed at a time covers them all changed.)
C10_FilenameDeterminism ==
    (codecFrom = "saveNote" /\ codecPc = "file")
        => \A n \in Variants(codecNote) : saveNoteFileName(n) = codecFile.name

C10_Witness ==
    /\ codecFrom = "saveNote" /\ codecPc = "file"
    /\ codecNote.Tags # <<>>
    /\ codecNote.Content # <<>>
    /\ \E n \in Variants(codecNote) : n.Created # codecNote.Created

\* t and u differ at most in that one has a space where the other has a hyphen
Collide(t, u) ==
    /\ Len(t) = Len(u)
    /\ \A i \in DOMAIN t : t[i] = u[i] \/ {t[i], u[i]} = {" ", "-"}

\* C11: a note of the same day whose title has hyphens where the title of the
\* encoded note has spaces, or spaces where it has hyphens, is given the same
\* file name.
C11_HyphenCollision ==
    (codecFrom = "saveNote" /\ codecPc = "file")
        => \A t \in Titles :
              Collide(t, codecNote.Title)
                  => \A w \in {u \in Instants : SameDay(u, codecNote.Created)} :
                        saveNoteFileName(Note(t, codecNote.Tags, codecNote.Content, w))
                            = codecFile.name

C11_Witness ==
    /\ codecFrom = "saveNote" /\ codecPc = "file"
    /\ codecNote.Title = <<"a", " ">>
    /\ \E t \in Titles : t = <<"a", "-">> /\ Collide(t, codecNote.Title)

\* a step of the Save Note handler
SaveStep == last.op # "save" /\ last'.op = "save"

\* C12: a Save with an empty title writes no file, stages and commits
\* nothing, calls nothing, leaves the list as it is and leaves the tags and
\* the content in the form.
C12_EmptyTitleRejected ==
    [][(SaveStep /\ titleEntry = <<>>)
          => /\ files' = files
             /\ staged' = staged
             /\ head' = head
             /\ notes' = notes
             /\ last'.steps = <<>>
             /\ titleEntry' = titleEntry
             /\ tagsEntry' = tagsEntry
             /\ contentEntry' = contentEntry]_vars

C12_Witness ==
    /\ last.op = "save"
    /\ last.steps = <<>>
    /\ titleEntry = <<>>
    /\ tagsEntry # <<>>
    /\ contentEntry # <<>>

\* the handler has shown its dialog of success
Succeeded == \E i \in DOMAIN last.dialogs : last.dialogs[i][1] = "Success"

\* C13 (as claimed): a pull or a push that succeeded has listed the directory
\* and the list shows what the directory holds; one that failed has not
\* listed it.
C13_SyncRefresh ==
    last.op \in {"push", "pull"}
        => IF Succeeded
           THEN Listed /\ notes = refreshNotesList(repoDir, files).notes
           ELSE ~Listed

\* C14: the calls of a save are the write, the add and the commit in this
\* order; a call is made only after every call before it succeeded, a call
\* that fails is the last and its error is shown; what succeeded has left
\* the file of the note written, staged, committed.
C14_SaveOrdering ==
    last.op = "save"
        => LET st == last.steps
               fileName == saveNoteFileName(last.note)
               did(i) == i \in DOMAIN st /\ st[i].ok
               holds == /\ fileName \in DOMAIN files
                        /\ files[fileName].data = saveNoteContent(last.note)
           IN  /\ \A i \in DOMAIN st :
                     i <= 3 => st[i].call = <<"WriteFile", "Add", "Commit">>[i]
               /\ \A i, j \in DOMAIN st : i < j => st[i].ok
               /\ \A i \in DOMAIN st :
                     ~st[i].ok => /\ i = Len(st)
                                  /\ last.dialogs # <<>>
                                  /\ last.dialogs[1][1] = "Error"
               /\ did(1) => holds
               /\ (did(2) /\ ~did(3)) => fileName \in staged
               /\ did(3) => fileName \in head /\ fileName \notin staged

C14_Witness ==
    /\ last.op = "save"
    /\ Len(last.steps) = 3
    /\ ~last.steps[3].ok
    /\ saveNoteFileName(last.note) \in staged

\* the save handler has committed the note
Committed(h) == \E k \in DOMAIN h.steps : h.steps[k].call = "Commit" /\ h.steps[k].ok

\* the notes of a list that have the title
Titled(list, title) == {k \in DOMAIN list : list[k].Title = title}

\* C15 (as claimed): when the form holds the title and the tags of a note of
\* the list, as it does after the note was selected, with another content,
\* a Save that succeeds leaves as many files as there were, the edited
\* document in the file of that note, and as many notes of that title in
\* the list.
C15_UpdateInPlace ==
    [][\A i \in DOMAIN notes :
          (/\ SaveStep
           /\ Committed(last')
           /\ titleEntry = notes[i].Title
           /\ tagsEntry = Join(notes[i].Tags, CommaSpace)
           /\ contentEntry # notes[i].Content)
              => LET fileName == saveNoteFileName(notes[i])
                     edited == Note(titleEntry, parseTags(tagsEntry), contentEntry,
                                    notes[i].Created)
                 IN  /\ Cardinality(DOMAIN files') = Cardinality(DOMAIN files)
                     /\ fileName \in DOMAIN files'
                     /\ files'[fileName].data = saveNoteContent(edited)
                     /\ Cardinality(Titled(notes', titleEntry))
                            = Cardinality(Titled(notes, titleEntry))]_vars

\* C16 (as claimed): while createConfigFile waits on done, the callback of
\* its dialog can run and send, so that the function returns and the
\* start-up goes on.
C16_DoneMatched == pc = "createConfigFile" => ENABLED ConfigDialogCallback

\* the lines of a document: the pieces the newlines end, the last one with
\* or without its newline, each without a carriage return at its end
Breaks(doc) == {i \in DOMAIN doc : doc[i] = "\n"}

LineCount(doc) ==
    Cardinality(Breaks(doc)) + (IF doc # <<>> /\ doc[Len(doc)] # "\n" THEN 1 ELSE 0)

BreakAt(doc, k) ==
    LET breaks == Breaks(doc)
    IN  IF k = 0 THEN 0
        ELSE IF k > Cardinality(breaks) THEN Len(doc) + 1
        ELSE CHOOSE i \in breaks : Cardinality({j \in breaks : j <= i}) = k

LineAt(doc, k) ==
    LET raw == SubSeq(doc, BreakAt(doc, k - 1) + 1, BreakAt(doc, k) - 1)
    IN  IF raw # <<>> /\ raw[Len(raw)] = "\r" THEN SubSeq(raw, 1, Len(raw) - 1) ELSE raw

Lines(doc) == [k \in 1..LineCount(doc) |-> LineAt(doc, k)]

\* what follows the first n characters of a string
After(s, n) == SubSeq(s, n + 1, Len(s))

\* the title a file name with a date gives: what follows "YYYY-MM-DD-",
\* without a ".md" at its end, each hyphen turned into a space
NameTitle(fn) ==
    LET rest == After(fn, 11)
        stem == IF HasSuffix(rest, MdSuffix) THEN SubSeq(rest, 1, Len(rest) - 3) ELSE rest
    IN  [i \in DOMAIN stem |-> IF stem[i] = "-" THEN " " ELSE stem[i]]

\* parseNoteFromContent has returned a note
DecodedOk == codecPc = "done" /\ codecOut.err = "nil"

\* the first line of the document starts with "# "
HasTitleLine(doc) == LineCount(doc) >= 1 /\ HasPrefix(LineAt(doc, 1), TitlePrefix)

\* C17 (as claimed): the decoded title is the rest of the first line when
\* that line starts with "# ", and the title of the file name otherwise.
C17_TitlePrecedence ==
    DecodedOk =>
        codecOut.note.Title =
            IF HasTitleLine(codecFile.data)
            THEN After(LineAt(codecFile.data, 1), 2)
            ELSE NameTitle(codecFile.name)

\* C17 (amended): the decoded title is the rest of the first line when that
\* line starts with "# " and has something after it; it is the title of the
\* file name when the first line does not start with "# ", is "# " alone, or
\* the document is empty.
C17_TitlePrecedenceAmended ==
    DecodedOk =>
        codecOut.note.Title =
            IF HasTitleLine(codecFile.data) /\ After(LineAt(codecFile.data, 1), 2) # <<>>
            THEN After(LineAt(codecFile.data, 1), 2)
            ELSE NameTitle(codecFile.name)

C17_Witness ==
    /\ DecodedOk
    /\ HasTitleLine(codecFile.data)
    /\ After(LineAt(codecFile.data, 1), 2) = <<>>
    /\ codecOut.note.Title = NameTitle(codecFile.name)
    /\ codecOut.note.Title # <<>>

\* the lines after the first that start with "Tags: ", and the first of them
TagsAmong(lines) == {k \in 2..Len(lines) : HasPrefix(lines[k], TagsPrefix)}

TagsLines(doc) == TagsAmong(Lines(doc))

FirstOf(S) == CHOOSE k \in S : \A j \in S : k <= j

FirstTagsLine(doc) == FirstOf(TagsLines(doc))

\* the places of a line among lines
LinesEqual(lines, line) == {k \in DOMAIN lines : lines[k] = line}

\* C18: the tags are the value of the first line after the first that starts
\* with "Tags: ", split on ", "; every later line that starts so is a line of
\* the content; after saveNote the tags are those of the tags line it wrote
\* and each such line of the note's content is again a line of the content.
C18_FirstTagsLineOnly ==
    DecodedOk =>
        LET lines == Lines(codecFile.data)
            out == codecOut.note
            kept == Lines(out.Content)
            tagsLines == TagsAmong(lines)
            first == FirstOf(tagsLines)
        IN  /\ tagsLines # {}
                  => /\ out.Tags = Split(After(lines[first], 6), CommaSpace)
                     /\ \A k \in tagsLines \ {first} : LinesEqual(kept, lines[k]) # {}
                     /\ Cardinality({k \in DOMAIN kept : HasPrefix(kept[k], TagsPrefix)})
                            = Cardinality(tagsLines) - 1
            /\ codecFrom = "saveNote"
                  => LET given == Lines(codecNote.Content)
                     IN  /\ out.Tags = Split(Join(codecNote.Tags, CommaSpace), CommaSpace)
                         /\ \A k \in DOMAIN given :
                                HasPrefix(given[k], TagsPrefix)
                                    => LinesEqual(kept, given[k]) # {}

C18_Witness ==
    /\ DecodedOk
    /\ codecFrom = "saveNote"
    /\ \E k \in 1..LineCount(codecNote.Content) :
           HasPrefix(LineAt(codecNote.Content, k), TagsPrefix)
    /\ Cardinality(TagsLines(codecFile.data)) = 2
    /\ codecNote.Tags # <<>>
    /\ codecOut.note.Tags = codecNote.Tags

\* the lines from the k-th on, each followed by a newline, but for one line
RECURSIVE LinesFrom(_, _, _)
LinesFrom(lines, k, but) ==
    IF k > Len(lines) THEN <<>>
    ELSE (IF k = but THEN <<>> ELSE lines[k] \o LF) \o LinesFrom(lines, k + 1, but)

\* C19: the content is every line after the first, but for the tags line,
\* each followed by a newline and in the order of the document; a document
\* with no tags line gives no tags and all those lines.
C19_ContentAssembly ==
    DecodedOk =>
        LET lines == Lines(codecFile.data)
            tagsLines == TagsAmong(lines)
        IN  IF tagsLines = {}
            THEN /\ codecOut.note.Tags = <<>>
                 /\ codecOut.note.Content = LinesFrom(lines, 2, 0)
            ELSE codecOut.note.Content = LinesFrom(lines, 2, FirstOf(tagsLines))

C19_Witness ==
    /\ DecodedOk
    /\ TagsLines(codecFile.data) = {}
    /\ LineCount(codecFile.data) >= 2
    /\ codecOut.note.Tags = <<>>
    /\ codecOut.note.Content # <<>>

\* C20 (as claimed): a note that parseNoteFromContent returns has a title
\* that is not empty.
C20_NonEmptyTitle == DecodedOk => codecOut.note.Title # <<>>

\* the notes the files of a directory decode to
DecodedFrom(fs) == {parseNoteFromContent(fs[name].data, name).note : name \in Decodable(fs)}

\* C21: when a save or a pull has succeeded, the list holds one note for
\* each file of the directory that decodes and no other note, whatever it
\* held before; after a save one of them has the saved title and the day of
\* the save.
C21_ListFollowsStore ==
    (last.op \in {"save", "pull"} /\ Succeeded)
        => /\ Listed
           /\ Len(notes) = Cardinality(Decodable(files))
           /\ {notes[i] : i \in DOMAIN notes} = DecodedFrom(files)
           /\ last.op = "save"
                 => \E i \in DOMAIN notes :
                       /\ notes[i].Title = last.note.Title
                       /\ SameDay(notes[i].Created, last.note.Created)

C21_Witness ==
    /\ last.op = "save"
    /\ Succeeded
    /\ Len(notes) >= 2
    /\ \E i \in DOMAIN notes : ~SameDay(notes[i].Created, last.note.Created)

\* a string comes before another in the order of their characters
Precedes(s, t) ==
    \E k \in 1..(Len(s) + 1) :
        /\ k <= Len(t)
        /\ \A i \in 1..(k - 1) : s[i] = t[i]
        /\ k <= Len(s) => Code(s[k]) < Code(t[k])

\* the day of an instant as one number
DayNumber(t) == t.year * 10000 + t.month * 100 + t.day

\* C22: in every state the list is ordered by date, the newest first, and
\* within one date by title in lower case; no handler leaves it otherwise.
C22_SortedSnapshot ==
    \A i \in 1..(Len(notes) - 1) :
        \/ DayNumber(notes[i].Created) > DayNumber(notes[i + 1].Created)
        \/ /\ DayNumber(notes[i].Created) = DayNumber(notes[i + 1].Created)
           /\ \/ ToLower(notes[i].Title) = ToLower(notes[i + 1].Title)
              \/ Precedes(ToLower(notes[i].Title), ToLower(notes[i + 1].Title))

C22_Witness ==
    /\ last.op = "save"
    /\ Succeeded
    /\ Len(notes) >= 3
    /\ notes[1].Title = <<"a">>
    /\ notes[2].Title = <<"B">>
    /\ DayNumber(notes[2].Created) > DayNumber(notes[3].Created)

\* decoded notes to compare a decoded note with: two days, titles that
\* differ in their case alone, and a note that differs in its content alone
CompareTitles == {<<"a">>, <<"B">>, <<"b">>}

CompareNotes ==
    {Note(t, <<>>, <<>>, w) : t \in CompareTitles,
                              w \in {Time(2024, 1, 2, 0), Time(2024, 2, 29, 0)}}
        \cup {Note(<<"a">>, <<<<"x">>>>, <<"c", "\n">>, Time(2024, 1, 2, 0))}

\* neither note is less than the other
Unordered(a, b) == ~less(a, b) /\ ~less(b, a)

\* C23: over decoded notes the comparison of sortNotesByDateAndTitle is
\* irreflexive, asymmetric and transitive, and it leaves two notes unordered
\* exactly when they have one date and one title in lower case.
C23_StrictOrder ==
    DecodedOk =>
        LET a == codecOut.note
        IN  /\ ~less(a, a)
            /\ \A b \in CompareNotes :
                  /\ ~(less(a, b) /\ less(b, a))
                  /\ Unordered(a, b)
                        <=> /\ SameDay(a.Created, b.Created)
                            /\ ToLower(a.Title) = ToLower(b.Title)
            /\ \A b, c \in CompareNotes :
                  /\ (less(a, b) /\ less(b, c)) => less(a, c)
                  /\ (less(b, a) /\ less(a, c)) => less(b, c)
                  /\ (less(b, c) /\ less(c, a)) => less(b, a)

C23_Witness ==
    /\ DecodedOk
    /\ codecOut.note.Title = <<"B">>
    /\ \E b, c \in CompareNotes :
          /\ b.Title = <<"b">>
          /\ Unordered(codecOut.note, b)
          /\ less(c, b)
          /\ less(c, codecOut.note)

\* a step that changes the form and is no handler of a button of the store
FormStep == formVars' # formVars /\ last'.op = "none"

\* C24: a selection of an id below the length of the list sets the form to
\* the title, the tags joined with ", " and the content of that note; one of
\* an id past the end changes nothing; and a step that selects, edits the
\* form or clears it changes neither the list nor the directory.
C24_SelectionCopies ==
    [][/\ \A id \in 0..Len(notes) :
             (Idle /\ OnSelected(id) /\ last'.op = "none")
                => IF id + 1 \in DOMAIN notes
                   THEN /\ titleEntry' = notes[id + 1].Title
                        /\ tagsEntry' = Join(notes[id + 1].Tags, CommaSpace)
                        /\ contentEntry' = notes[id + 1].Content
                   ELSE /\ titleEntry' = titleEntry
                        /\ tagsEntry' = tagsEntry
                        /\ contentEntry' = contentEntry
       /\ (Select \/ EditForm \/ EditContent \/ NewButton \/ FormStep)
             => /\ notes' = notes
                /\ files' = files
                /\ staged' = staged
                /\ head' = head]_vars

C24_Witness ==
    /\ Idle
    /\ last.op = "none"
    /\ \E i \in DOMAIN notes :
          /\ notes[i].Tags # <<>>
          /\ titleEntry = notes[i].Title
          /\ tagsEntry = Join(notes[i].Tags, CommaSpace)
          /\ contentEntry = notes[i].Content
          /\ contentEntry # <<"c">>

\* the note read back from the file saveNote writes for a note
Reloaded(note) == parseNoteFromContent(saveNoteContent(note), saveNoteFileName(note)).note

\* C25 (as claimed): the note read back from a saved note, saved again as
\* it is and read back, has the content it had.
C25_ResaveStable ==
    (DecodedOk /\ codecFrom = "saveNote")
        => Reloaded(codecOut.note).Content = codecOut.note.Content

\* C26: a note whose title is not empty is read back from its file with
\* that title, hyphens and spaces included, whatever title the file name
\* gives.
C26_TitleSurvives ==
    (DecodedOk /\ codecFrom = "saveNote" /\ codecNote.Title # <<>>)
        => codecOut.note.Title = codecNote.Title

C26_Witness ==
    /\ DecodedOk
    /\ codecFrom = "saveNote"
    /\ "-" \in Chars(codecNote.Title)
    /\ codecOut.note.Title = codecNote.Title
    /\ NameTitle(codecFile.name) # codecNote.Title

\* C27 (as claimed): a note with no tags is read back from its file with no
\* tags.
C27_NoTagsReload ==
    (DecodedOk /\ codecFrom = "saveNote" /\ codecNote.Tags = <<>>)
        => codecOut.note.Tags = <<>>

\* C28: the first line of a document is never a line of the content and
\* never the tags line, with or without "# " at its start: the content has
\* the lines after the first but for the tags line among them, and a
\* document whose only line with "Tags: " is the first has no tags.
C28_FirstLineConsumed ==
    (DecodedOk /\ codecFile.data # <<>>)
        => LET lines == Lines(codecFile.data)
               out == codecOut.note
               kept == Lines(out.Content)
               tagsLines == TagsAmong(lines)
           IN  /\ Len(kept) = Len(lines) - 1 - (IF tagsLines # {} THEN 1 ELSE 0)
               /\ \A k \in DOMAIN kept : \E j \in 2..Len(lines) : kept[k] = lines[j]
               /\ tagsLines = {} => out.Tags = <<>>
               /\ ~HasPrefix(lines[1], TitlePrefix) => out.Title = NameTitle(codecFile.name)

C28_Witness ==
    /\ DecodedOk
    /\ HasPrefix(LineAt(codecFile.data, 1), TagsPrefix)
    /\ codecOut.note.Tags = <<>>
    /\ codecOut.note.Content = <<"c", "\n">>

\* the handler wrote the file and a later call failed
WroteThenFailed(h) ==
    /\ h.op = "save"
    /\ Len(h.steps) >= 2
    /\ h.steps[1].call = "WriteFile" /\ h.steps[1].ok
    /\ ~h.steps[Len(h.steps)].ok

\* the files that decode and are in no commit
Uncommitted(fs) == Decodable(fs) \ head

\* C29: a save whose write succeeds and whose add or commit fails shows the
\* error, leaves the file written and the commit as it was, keeps the form
\* and does not list; a later listing shows the note of a file that is in
\* no commit.
C29_NoRollback ==
    /\ [][(SaveStep /\ WroteThenFailed(last'))
             => LET fileName == saveNoteFileName(last'.note)
                IN  /\ last'.dialogs # <<>> /\ last'.dialogs[1][1] = "Error"
                    /\ fileName \in DOMAIN files'
                    /\ files'[fileName].data = saveNoteContent(last'.note)
                    /\ head' = head
                    /\ formVars' = formVars
                    /\ notes' = notes
                    /\ \A k \in DOMAIN last'.steps : last'.steps[k].call # "listNotes"]_vars
    /\ []((Listed /\ Succeeded)
             => \A name \in Uncommitted(files) :
                   \E i \in DOMAIN notes :
                      notes[i] = parseNoteFromContent(files[name].data, name).note)

C29_Witness ==
    /\ Listed
    /\ Succeeded
    /\ last.op = "pull"
    /\ faults = 1
    /\ \E name \in Uncommitted(files) :
          \E i \in DOMAIN notes :
             notes[i] = parseNoteFromContent(files[name].data, name).note

\* the error of the library that a sync operation takes for a success
Tolerated(op) ==
    IF op = "push" THEN "remote repository is empty" ELSE "already up-to-date"

SyncFailed(op) == IF op = "push" THEN "git push failed" ELSE "git pull failed"

\* C30: a pull succeeds exactly when the library returns no error or
\* "already up-to-date", a push exactly when it returns no error or "remote
\* repository is empty"; every other outcome, a push that is already up to
\* date included, is shown as an error and nothing is listed.
C30_OutcomeMapping ==
    last.op \in {"push", "pull"}
        => LET returned == last.steps[1].returned
           IN  /\ Succeeded <=> returned \in {"nil", Tolerated(last.op)}
               /\ ~Succeeded
                     => /\ last.dialogs = <<<<"Error", SyncFailed(last.op), returned>>>>
                        /\ Len(last.steps) = 1
                        /\ ~Listed

C30_Witness ==
    /\ last.op = "push"
    /\ last.steps[1].returned = "already up-to-date"
    /\ ~Succeeded
    /\ last.dialogs # <<>>

=============================================================================
